---- MODULE Spec2Model ----
(***************************************************************************)
(* A model of the trading simulator: the SQLite store (db_manager), the    *)
(* price feeder, the signal engine ("brain") and the two decision engines. *)
(*                                                                         *)
(* Numbers.  Prices and moving averages are integers in units of 1e-4      *)
(* (every persisted decimal is rounded to 4 places); signal values are     *)
(* integers in units of 1e-4, so 0.75 is 7500; trade quantities are in     *)
(* units of 1e-2, so 10 is 1000 and 0.01 is 1.  The feeder's retained mock *)
(* price is finer than the stored price: it is a pair [u, f] standing for  *)
(* (u + f/10) units.  Floating point is modelled by exact rational         *)
(* arithmetic; round(x, 4) is rounding to the nearest unit, ties to even.  *)
(***************************************************************************)
EXTENDS Integers, Sequences, FiniteSets, TLC

\* ---------------------------------------------------------------- bounds
\* job runs and clock ticks in a behaviour
MaxSteps == 3

\* ------------------------------------------------------ program constants
SMA_SHORT_PERIOD == 20
SMA_LONG_PERIOD == 50
\* limit = SMA_LONG_PERIOD + 5
FETCH_MARGIN == 5
STOCK_BUY_THRESHOLD == 7500
STOCK_SELL_THRESHOLD == 2500
STOCK_TRADE_QUANTITY == 1000
CRYPTO_BUY_THRESHOLD == 8000
CRYPTO_SELL_THRESHOLD == 2000
CRYPTO_TRADE_QUANTITY == 1
\* the neutral signal 0.5
NEUTRAL == 5000

STOCK_ASSET == "AAPL"
CRYPTO_ASSET == "BTC"
\* STOCKS + CRYPTOS, and ASSETS_TO_ANALYZE: the same list, in this order
ASSETS == <<"AAPL", "BTC">>
AssetSet == {"AAPL", "BTC"}

\* an optional decimal: a value, or absent (Python None, NaN, SQL NULL)
Some(v) == [null |-> FALSE, v |-> v]
None == [null |-> TRUE, v |-> 0]

VARIABLES price_data, price_seq, signals, trade_history, MOCK_PRICES, clock, lastRun,
          steps

vars == <<price_data, price_seq, signals, trade_history, MOCK_PRICES, clock, lastRun,
          steps>>
store == <<price_data, price_seq, signals, trade_history>>

\* ------------------------------------------------------------ arithmetic
Abs(x) == IF x < 0 THEN -x ELSE x

\* n / d (d > 0) rounded to the nearest integer, ties to the even one
RoundHalfEven(n, d) ==
    LET q == n \div d
        r == n % d
    IN  IF 2 * r < d THEN q
        ELSE IF 2 * r > d THEN q + 1
        ELSE IF q % 2 = 0 THEN q ELSE q + 1

\* k * n = q * d + r with 0 <= r < d, for 0 <= n < d, by doubling (no product
\* larger than 2 * d is formed)
RECURSIVE MulDivMod(_, _, _)
MulDivMod(k, n, d) ==
    IF k = 0 THEN [q |-> 0, r |-> 0]
    ELSE LET h  == MulDivMod(k \div 2, n, d)
             q2 == 2 * h.q + (IF 2 * h.r >= d THEN 1 ELSE 0)
             r2 == IF 2 * h.r >= d THEN 2 * h.r - d ELSE 2 * h.r
             r3 == IF k % 2 = 1 THEN r2 + n ELSE r2
         IN  IF r3 >= d THEN [q |-> q2 + 1, r |-> r3 - d] ELSE [q |-> q2, r |-> r3]

\* k * n / d rounded to the nearest integer, ties to even, for 0 <= n < d
RoundMulDiv(k, n, d) ==
    LET m == MulDivMod(k, n, d)
    IN  IF 2 * m.r < d THEN m.q
        ELSE IF 2 * m.r > d THEN m.q + 1
        ELSE IF m.q % 2 = 0 THEN m.q ELSE m.q + 1

\* s[lo] + ... + s[hi], by halves
RECURSIVE SumRange(_, _, _)
SumRange(s, lo, hi) ==
    IF lo > hi THEN 0
    ELSE IF lo = hi THEN s[lo]
    ELSE LET mid == (lo + hi) \div 2
         IN  SumRange(s, lo, mid) + SumRange(s, mid + 1, hi)

\* The storage errors of the model: a run meets at most one, on an insert or
\* on a decision engine's signal lookup.  fail[a] says that the insert for
\* asset a fails.
NoFail == [a \in AssetSet |-> FALSE]
OneFail == {NoFail} \cup {[NoFail EXCEPT ![a] = TRUE] : a \in AssetSet}

\* ------------------------------------------------------------- the store
\* One log line of a run: what the code prints, and about which asset.
Line(tag, asset) == [tag |-> tag, asset |-> asset]

\* rows in ascending timestamp order; rows of equal timestamp keep table
\* order.  Row i goes to the place that counts the rows that come before it.
SortByTime(s) ==
    LET n == Len(s)
        Before(j, i) == \/ s[j].timestamp < s[i].timestamp
                        \/ s[j].timestamp = s[i].timestamp /\ j < i
        place == [i \in 1..n |-> 1 + Cardinality({j \in 1..n : Before(j, i)})]
    IN  IF \A i \in 1..(n - 1) : s[i].timestamp <= s[i + 1].timestamp THEN s
        ELSE [k \in 1..n |-> s[CHOOSE i \in 1..n : place[i] = k]]

Reverse(s) == [i \in 1..Len(s) |-> s[Len(s) + 1 - i]]

RowsOf(tbl, asset) ==
    LET IsAsset(r) == r.asset = asset
    IN  SelectSeq(tbl, IsAsset)

\* SELECT * FROM price_data WHERE asset = ? ORDER BY timestamp DESC LIMIT ?
fetch_latest_data(tbl, asset, limit) ==
    LET desc == Reverse(SortByTime(RowsOf(tbl, asset)))
    IN  IF Len(desc) <= limit THEN desc ELSE SubSeq(desc, 1, limit)

\* insert_price_data as a plain INSERT with no UNIQUE constraint
insert_price_data_append(tbl, seq, asset, timestamp, price, fail) ==
    IF fail
    THEN [tbl |-> tbl, seq |-> seq, raised |-> FALSE,
          log |-> <<Line("Error inserting price data", asset)>>]
    ELSE [tbl |-> Append(tbl, [id |-> seq + 1, asset |-> asset,
                               timestamp |-> timestamp, price |-> price]),
          seq |-> seq + 1, raised |-> FALSE, log |-> <<>>]

\* INSERT OR REPLACE under UNIQUE(asset, timestamp): a row with the same key
\* is deleted and the new row takes the next AUTOINCREMENT id.  A failing
\* statement is rolled back, and the error is printed, not raised.
insert_price_data(tbl, seq, asset, timestamp, price, fail) ==
    IF fail
    THEN [tbl |-> tbl, seq |-> seq, raised |-> FALSE,
          log |-> <<Line("Error inserting price data", asset)>>]
    ELSE LET Other(r) == ~(r.asset = asset /\ r.timestamp = timestamp)
         IN  [tbl |-> Append(SelectSeq(tbl, Other),
                             [id |-> seq + 1, asset |-> asset,
                              timestamp |-> timestamp, price |-> price]),
              seq |-> seq + 1, raised |-> FALSE, log |-> <<>>]

\* insert_signal with the error raised again after it is printed
insert_signal_reraise(tbl, asset, timestamp, signal_value, sma_20, sma_50, fail) ==
    IF fail \/ signal_value.null
    THEN [tbl |-> tbl, raised |-> TRUE,
          log |-> <<Line("Error inserting signal", asset)>>]
    ELSE [tbl |-> Append(tbl, [asset |-> asset, timestamp |-> timestamp,
                               signal_value |-> signal_value.v,
                               sma_20 |-> sma_20, sma_50 |-> sma_50]),
          raised |-> FALSE, log |-> <<>>]

\* INSERT INTO signals.  signal_value is REAL NOT NULL: a NaN is bound as
\* NULL and the statement fails.  The error is printed, not raised.
insert_signal(tbl, asset, timestamp, signal_value, sma_20, sma_50, fail) ==
    IF fail \/ signal_value.null
    THEN [tbl |-> tbl, raised |-> FALSE,
          log |-> <<Line("Error inserting signal", asset)>>]
    ELSE [tbl |-> Append(tbl, [asset |-> asset, timestamp |-> timestamp,
                               signal_value |-> signal_value.v,
                               sma_20 |-> sma_20, sma_50 |-> sma_50]),
          raised |-> FALSE, log |-> <<>>]

\* insert_trade_action that leaves out a row the table already holds
insert_trade_action_once(tbl, asset, timestamp, action, quantity, price, fail) ==
    LET row == [asset |-> asset, timestamp |-> timestamp, action |-> action,
                quantity |-> quantity, price |-> price]
    IN  IF fail
        THEN [tbl |-> tbl, raised |-> FALSE,
              log |-> <<Line("Error inserting trade action", asset)>>]
        ELSE [tbl |-> IF \E i \in 1..Len(tbl) : tbl[i] = row THEN tbl
                      ELSE Append(tbl, row),
              raised |-> FALSE, log |-> <<>>]

\* INSERT INTO trade_history.  The error is printed, not raised.
insert_trade_action(tbl, asset, timestamp, action, quantity, price, fail) ==
    IF fail
    THEN [tbl |-> tbl, raised |-> FALSE,
          log |-> <<Line("Error inserting trade action", asset)>>]
    ELSE [tbl |-> Append(tbl, [asset |-> asset, timestamp |-> timestamp,
                               action |-> action, quantity |-> quantity,
                               price |-> price]),
          raised |-> FALSE, log |-> <<>>]

\* ------------------------------------------------------------ the feeder
\* MOCK_PRICES = {'AAPL': 170.00, 'BTC': 65000.00}
MockInit(asset) ==
    IF asset = "AAPL" THEN [u |-> 1700000, f |-> 0] ELSE [u |-> 650000000, f |-> 0]

\* mock_price + fluctuation, the fluctuation d in tenths of a unit
MockAdd(m, d) == [u |-> m.u + ((m.f + d) \div 10), f |-> (m.f + d) % 10]

\* round(current_price, 4)
Round4(m) ==
    IF 2 * m.f < 10 THEN m.u
    ELSE IF 2 * m.f > 10 THEN m.u + 1
    ELSE IF m.u % 2 = 0 THEN m.u ELSE m.u + 1

\* random.uniform(-0.005, 0.005) * mock_price: at most 0.5% of the mock
\* price.  The model draws a small rise for the stock and a small fall for
\* the crypto asset, in tenths of a unit.
FluctInputs(asset) == IF asset = "AAPL" THEN {14} ELSE {-14}

Fluctuations(asset, m) == {d \in FluctInputs(asset) : Abs(d) <= m.u \div 20}

\* The loop body of fetch_and_store_data for ASSETS[i], then the rest of the
\* loop.  st = [tbl, seq, mock, log].
RECURSIVE FeederLoop(_, _, _, _, _)
FeederLoop(i, st, now, fl, fail) ==
    IF i > Len(ASSETS) THEN st
    ELSE LET asset == ASSETS[i]
             current_price == MockAdd(st.mock[asset], fl[asset])
             ins == insert_price_data(st.tbl, st.seq, asset, now,
                                      Round4(current_price), fail[asset])
             after == [tbl  |-> ins.tbl,
                       seq  |-> ins.seq,
                       mock |-> [st.mock EXCEPT ![asset] = current_price],
                       log  |-> st.log \o ins.log \o
                                <<Line(IF ins.raised THEN "[ERROR] Failed to fetch data"
                                       ELSE "[SUCCESS]", asset)>>]
         IN  FeederLoop(i + 1, after, now, fl, fail)

\* one more step of the behaviour, while the bound allows
Step == steps < MaxSteps /\ steps' = steps + 1

\* what the last step did: the operation, whether it raised, what it printed
\* and, for a decision engine, its latest_signal, action and current_price
NoRun == [op |-> "none", raised |-> FALSE, log |-> <<>>,
          signal |-> None, action |-> "none", price |-> None]

fetch_and_store_data(fl, fail) ==
    /\ Step
    /\ \A a \in AssetSet : fl[a] \in Fluctuations(a, MOCK_PRICES[a])
    /\ LET st == FeederLoop(1, [tbl |-> price_data, seq |-> price_seq,
                                mock |-> MOCK_PRICES, log |-> <<>>], clock, fl, fail)
       IN  /\ price_data' = st.tbl
           /\ price_seq' = st.seq
           /\ MOCK_PRICES' = st.mock
           /\ lastRun' = [NoRun EXCEPT !.op = "feeder", !.log = st.log]
    /\ UNCHANGED <<signals, trade_history, clock>>

\* time.time() advances
Tick ==
    /\ Step
    /\ clock' = clock + 1
    /\ lastRun' = [NoRun EXCEPT !.op = "tick"]
    /\ UNCHANGED <<price_data, price_seq, signals, trade_history, MOCK_PRICES>>

\* ----------------------------------------------------- the signal engine
Prices(rows) == [i \in 1..Len(rows) |-> rows[i].price]

\* prices relative to the oldest one: differences and means of differences
\* are what the engine uses, and the offsets keep every sum in 32 bits
Offsets(prices) == [i \in 1..Len(prices) |-> prices[i] - prices[1]]

\* Analysis with a long window of one row more than SMA_LONG_PERIOD
AnalysisLongWindowPlusOne(prc, asset) ==
    LET data   == fetch_latest_data(prc, asset, SMA_LONG_PERIOD + FETCH_MARGIN)
        prices == Prices(Reverse(data))
        off    == Offsets(prices)
        n      == Len(prices)
        s20    == SumRange(off, n - SMA_SHORT_PERIOD + 1, n)
        rest   == SumRange(off, n - SMA_LONG_PERIOD, n - SMA_SHORT_PERIOD)
    IN  [len    |-> n,
         price  |-> IF n = 0 THEN 0 ELSE prices[n],
         sma_20 |-> IF n < SMA_SHORT_PERIOD THEN None
                    ELSE Some(prices[1] + RoundHalfEven(s20, SMA_SHORT_PERIOD)),
         sma_50 |-> IF n < SMA_LONG_PERIOD + 1 THEN None
                    ELSE Some(prices[1]
                              + RoundHalfEven(s20 + rest, SMA_LONG_PERIOD + 1)),
         spread100 |-> IF n < SMA_LONG_PERIOD + 1 THEN 0 ELSE 3 * s20 - 2 * rest]

\* Lines 19-37: the fetched rows in ascending order and the two rolling means
\* at the newest row.  len is len(data); price is latest['price']; sma_20 and
\* sma_50 are the means rounded to 4 places, absent (NaN) when fewer rows
\* than the window were fetched; spread100 is 100 * (sma_20 - sma_50)
\* = 5 * S20 - 2 * S50 = 3 * S20 - 2 * (S50 - S20), S20 and S50 the sums of the
\* newest 20 and 50 prices.
Analysis(prc, asset) ==
    LET data   == fetch_latest_data(prc, asset, SMA_LONG_PERIOD + FETCH_MARGIN)
        prices == Prices(Reverse(data))
        off    == Offsets(prices)
        n      == Len(prices)
        s20    == SumRange(off, n - SMA_SHORT_PERIOD + 1, n)
        rest   == SumRange(off, n - SMA_LONG_PERIOD + 1, n - SMA_SHORT_PERIOD)
    IN  [len    |-> n,
         price  |-> IF n = 0 THEN 0 ELSE prices[n],
         sma_20 |-> IF n < SMA_SHORT_PERIOD THEN None
                    ELSE Some(prices[1] + RoundHalfEven(s20, SMA_SHORT_PERIOD)),
         sma_50 |-> IF n < SMA_LONG_PERIOD THEN None
                    ELSE Some(prices[1] + RoundHalfEven(s20 + rest, SMA_LONG_PERIOD)),
         spread100 |-> IF n < SMA_LONG_PERIOD THEN 0 ELSE 3 * s20 - 2 * rest]

\* SignalValue without the clip; an infinite quotient is stood for by a
\* value beyond the interval
SignalValueUnclipped(spread100, price) ==
    LET n == IF price < 0 THEN -spread100 ELSE spread100
        d == Abs(price)
        q == Abs(n) \div d
        r == Abs(n) % d
        half == NEUTRAL * q + RoundMulDiv(NEUTRAL, r, d)
    IN  IF price = 0
        THEN IF spread100 > 0 THEN Some(4 * NEUTRAL)
             ELSE IF spread100 < 0 THEN Some(-2 * NEUTRAL) ELSE None
        ELSE IF n >= 0 THEN Some(NEUTRAL + half)
        ELSE Some(NEUTRAL - half)

\* SignalValue of sma_50 - sma_20
SignalValueReversed(spread100, price) ==
    LET n == IF price < 0 THEN spread100 ELSE -spread100
        d == Abs(price)
    IN  IF price = 0
        THEN IF spread100 < 0 THEN Some(10000)
             ELSE IF spread100 > 0 THEN Some(0) ELSE None
        ELSE IF n >= d THEN Some(10000)
        ELSE IF n <= -d THEN Some(0)
        ELSE IF n >= 0 THEN Some(NEUTRAL + RoundMulDiv(NEUTRAL, n, d))
        ELSE Some(NEUTRAL - RoundMulDiv(NEUTRAL, -n, d))

\* round(signal_value, 4) of lines 45-59, as an integer in 0..10000:
\*   diff_pct = (sma_20 - sma_50) / price = spread100 / (100 * price)
\*   normalized_diff = clip(diff_pct / 0.01, -1, 1) = clip(spread100 / price, -1, 1)
\*   signal_value = (normalized_diff + 1) / 2
\* A price of 0 divides by zero.  With numpy floats the quotient is +-inf,
\* clipped to +-1, or NaN (None) for 0 / 0.
SignalValue(spread100, price) ==
    LET n == IF price < 0 THEN -spread100 ELSE spread100
        d == Abs(price)
    IN  IF price = 0
        THEN IF spread100 > 0 THEN Some(10000)
             ELSE IF spread100 < 0 THEN Some(0) ELSE None
        ELSE IF n >= d THEN Some(10000)
        ELSE IF n <= -d THEN Some(0)
        ELSE IF n >= 0 THEN Some(NEUTRAL + RoundMulDiv(NEUTRAL, n, d))
        ELSE Some(NEUTRAL - RoundMulDiv(NEUTRAL, -n, d))

\* Whether line 46 raises.  latest['price'] is a Python float when the row is
\* read out of a frame of mixed column types, and a numpy float otherwise:
\* dividing by a Python 0.0 raises ZeroDivisionError, dividing by a numpy
\* 0.0 does not.  zdiv says which of the two the build does.
ZeroDivision(price, zdiv) == price = 0 /\ zdiv = "raise"

\* Whether line 27 raises.  df.sort_values(by='timestamp') needs a frame whose
\* columns carry the table's column names.  pd.DataFrame(data) takes them
\* from rows it treats as mappings; for rows it treats as plain sequences it
\* numbers the columns, and line 27 raises KeyError.  frame says which of the
\* two the build's DataFrame constructor does with sqlite3.Row objects.
KeyError(frame) == frame = "positional"

\* if len(data) < SMA_LONG_PERIOD
NotEnoughShort(len) == len < SMA_SHORT_PERIOD
NotEnough(len) == len < SMA_LONG_PERIOD

\* generate_signals(asset): the signals table after the call, whether the
\* call raised, and what it printed.  an is Analysis(price_data, asset);
\* in = [fail, zdiv, frame]: fail[asset] says that the insert of this call
\* meets a storage error.
generate_signals(sig, an, asset, now, in) ==
    LET undefined == an.sma_20.null \/ an.sma_50.null
        signal_value == IF undefined THEN Some(NEUTRAL)
                        ELSE SignalValue(an.spread100, an.price)
        ins == insert_signal(sig, asset, now, signal_value, an.sma_20, an.sma_50,
                             in.fail[asset])
    IN  IF NotEnough(an.len)
        THEN [tbl |-> sig, raised |-> FALSE, log |-> <<Line("[SKIP]", asset)>>]
        ELSE IF KeyError(in.frame)
        THEN [tbl |-> sig, raised |-> TRUE, log |-> <<Line("KeyError", asset)>>]
        ELSE IF ~undefined /\ ZeroDivision(an.price, in.zdiv)
        THEN [tbl |-> sig, raised |-> TRUE,
              log |-> <<Line("ZeroDivisionError", asset)>>]
        ELSE IF ins.raised
        THEN [tbl |-> ins.tbl, raised |-> TRUE, log |-> ins.log]
        ELSE [tbl |-> ins.tbl, raised |-> FALSE,
              log |-> ins.log \o <<Line("[SIGNAL]", asset)>>]

\* the loop of update_brain from ASSETS[i] on: an exception ends it.
\* an[a] is Analysis(price_data, a).
RECURSIVE BrainLoop(_, _, _, _, _)
BrainLoop(i, st, an, now, in) ==
    IF i > Len(ASSETS) \/ st.raised THEN st
    ELSE LET g == generate_signals(st.tbl, an[ASSETS[i]], ASSETS[i], now, in)
         IN  BrainLoop(i + 1, [tbl |-> g.tbl, raised |-> g.raised,
                               log |-> st.log \o g.log], an, now, in)

\* the inputs of a run; the run that raises KeyError reads neither of the
\* other two
BrainInputs ==
    [fail : OneFail, zdiv : {"raise", "ieee"}, frame : {"named"}]
        \cup [fail : {NoFail}, zdiv : {"raise"}, frame : {"positional"}]

update_brain(in, an) ==
    /\ Step
    /\ LET st == BrainLoop(1, [tbl |-> signals, raised |-> FALSE, log |-> <<>>],
                           an, clock, in)
       IN  /\ signals' = st.tbl
           /\ lastRun' = [NoRun EXCEPT !.op = "brain", !.raised = st.raised,
                                       !.log = st.log]
    /\ UNCHANGED <<price_data, price_seq, trade_history, MOCK_PRICES, clock>>

\* -------------------------------------------------- the decision engines
\* SELECT signal_value FROM signals WHERE asset = ? ORDER BY timestamp DESC
\* LIMIT 1: the rows (by position) the query may return.  Rows of equal
\* timestamp are in no defined order, so any of the newest may come first.
LatestSignalRows(sig, asset) ==
    {i \in 1..Len(sig) :
        /\ sig[i].asset = asset
        /\ \A j \in 1..Len(sig) :
              sig[j].asset = asset => sig[j].timestamp <= sig[i].timestamp}

\* the trading decision of lines 43-52 (stock) and 42-51 (crypto)
DecideStrict(latest_signal, buy_threshold, sell_threshold) ==
    IF latest_signal > buy_threshold THEN "BUY"
    ELSE IF latest_signal < sell_threshold THEN "SELL"
    ELSE "HOLD"
Decide(latest_signal, buy_threshold, sell_threshold) ==
    IF latest_signal >= buy_threshold THEN "BUY"
    ELSE IF latest_signal <= sell_threshold THEN "SELL"
    ELSE "HOLD"

\* latest_signal: the value of the row the lookup returned, 0.5 when it
\* returned none or raised
LookupSignalOrZero(sig, in) ==
    IF in.fault # "signal" /\ in.pick # 0 THEN sig[in.pick].signal_value ELSE 0
LookupSignal(sig, in) ==
    IF in.fault # "signal" /\ in.pick # 0 THEN sig[in.pick].signal_value ELSE NEUTRAL

\* if action in ['BUY', 'SELL']
ExecutesAny(action) == TRUE
Executes(action) == action \in {"BUY", "SELL"}

\* the run that finds no price data: it prints and returns
NoPriceRunRecorded(tbl, asset, now, quantity) ==
    [NoRun EXCEPT !.log = <<Line("[HOLD] No price data", asset)>>]
        @@ [tbl |-> Append(tbl, [asset |-> asset, timestamp |-> now, action |-> "HOLD",
                                 quantity |-> quantity, price |-> 0])]
NoPriceRun(tbl, asset, now, quantity) ==
    [NoRun EXCEPT !.log = <<Line("[HOLD] No price data", asset)>>] @@ [tbl |-> tbl]

\* One run of a decision engine: the trade history after it, whether it
\* raised, what it printed, and its latest_signal, action and current_price.
\* in = [fault, pick]: fault names the statement of this run that meets a
\* storage error ("signal": the signal lookup, "insert": the trade insert,
\* or "none"; a failed lookup decides HOLD, so no run reaches both); pick is
\* the position of the signal row the lookup returned (0: none).
EngineRun(asset, buy_threshold, sell_threshold, quantity, in) ==
    LET latest_data == fetch_latest_data(price_data, asset, 1)
        latest_signal == LookupSignal(signals, in)
        sigLog == IF in.fault = "signal" THEN <<Line("[ERROR] Could not fetch signal", asset)>>
                  ELSE <<>>
        current_price == latest_data[1].price
        action == Decide(latest_signal, buy_threshold, sell_threshold)
        ins == insert_trade_action(trade_history, asset, clock, action, quantity,
                                   current_price, in.fault = "insert")
    IN  IF latest_data = <<>>
        THEN NoPriceRun(trade_history, asset, clock, quantity)
        ELSE IF Executes(action)
        THEN [tbl |-> ins.tbl, op |-> "none", raised |-> ins.raised,
              log |-> sigLog \o ins.log \o
                      (IF ins.raised THEN <<>> ELSE <<Line("[TRADE EXECUTED]", asset)>>),
              signal |-> Some(latest_signal), action |-> action,
              price |-> Some(current_price)]
        ELSE [tbl |-> trade_history, op |-> "none", raised |-> FALSE,
              log |-> sigLog \o <<Line("[HOLD] Signal is neutral", asset)>>,
              signal |-> Some(latest_signal), action |-> action,
              price |-> Some(current_price)]

\* EngineInputs with the lookup of the stock engine, WHERE asset = 'AAPL'
EngineInputsOfStock(asset) ==
    {in \in [fault : {"none", "signal", "insert"}, pick : 0..Len(signals)] :
        IF LatestSignalRows(signals, STOCK_ASSET) = {} THEN in.pick = 0
        ELSE in.pick \in LatestSignalRows(signals, STOCK_ASSET)}

EngineInputs(asset) ==
    {in \in [fault : {"none", "signal", "insert"}, pick : 0..Len(signals)] :
        IF LatestSignalRows(signals, asset) = {} THEN in.pick = 0
        ELSE in.pick \in LatestSignalRows(signals, asset)}

EngineStep(name, run) ==
    /\ Step
    /\ trade_history' = run.tbl
    /\ lastRun' = [op |-> name, raised |-> run.raised, log |-> run.log,
                   signal |-> run.signal, action |-> run.action, price |-> run.price]
    /\ UNCHANGED <<price_data, price_seq, signals, MOCK_PRICES, clock>>

run_stock_engine(in) ==
    EngineStep("stock", EngineRun(STOCK_ASSET, STOCK_BUY_THRESHOLD,
                                  STOCK_SELL_THRESHOLD, STOCK_TRADE_QUANTITY, in))

run_crypto_engine(in) ==
    EngineStep("crypto", EngineRun(CRYPTO_ASSET, CRYPTO_BUY_THRESHOLD,
                                   CRYPTO_SELL_THRESHOLD, CRYPTO_TRADE_QUANTITY, in))

\* ------------------------------------------------------- the whole system
\* The store persists across runs of the program.  It starts with a price
\* history that earlier calls of insert_price_data wrote: per asset, n rows
\* 5 seconds apart at one price (the asset's starting price, or 0) and then,
\* in some histories, one newest row at another price; the newest row is 5
\* seconds older than the clock's start.
Flat(n) == [n |-> n, zero |-> FALSE, last |-> <<>>]
Zero(n) == [n |-> n, zero |-> TRUE, last |-> <<>>]
Then(n, price) == [n |-> n, zero |-> FALSE, last |-> <<price>>]

\* The histories of the model: an empty store; too few points for one asset;
\* a last price that puts the signal exactly on the buy thresholds (0.75 and
\* 0.80), and one for the sell thresholds (0.25 and 0.20); a last price of 0
\* and a last price hardly above the others; prices that are all 0 and a
\* last price twice the others.
Histories ==
    { [AAPL |-> Flat(0),           BTC |-> Flat(0)],
      [AAPL |-> Flat(49),          BTC |-> Flat(55)],
      [AAPL |-> Then(49, 2040000), BTC |-> Then(54, 812500000)],
      [AAPL |-> Then(49, 1457143), BTC |-> Then(54, 541666667)],
      [AAPL |-> Then(49, 0),       BTC |-> Then(54, 650004000)],
      [AAPL |-> Zero(50),          BTC |-> Then(54, 1300000000)] }

History(asset, h, firstId) ==
    LET len == h.n + Len(h.last)
    IN  [i \in 1..len |->
            [id |-> firstId + i - 1, asset |-> asset,
             timestamp |-> 1000 - 5 * (len - i + 1),
             price |-> IF i > h.n THEN h.last[1]
                       ELSE IF h.zero THEN 0 ELSE Round4(MockInit(asset))]]

Init ==
    /\ \E h \in Histories :
          /\ price_data = History("AAPL", h.AAPL, 1)
                              \o History("BTC", h.BTC, h.AAPL.n + Len(h.AAPL.last) + 1)
          /\ price_seq = h.AAPL.n + Len(h.AAPL.last) + h.BTC.n + Len(h.BTC.last)
    /\ signals = <<>>
    /\ trade_history = <<>>
    /\ MOCK_PRICES = [a \in AssetSet |-> MockInit(a)]
    /\ clock = 1000
    /\ lastRun = NoRun
    /\ steps = 0

Feeder == \E fl \in [AssetSet -> {-14, 14}], fail \in OneFail :
              fetch_and_store_data(fl, fail)

Brain == LET an == [a \in AssetSet |-> Analysis(price_data, a)]
         IN  \E in \in BrainInputs : update_brain(in, an)

StockEngine == \E in \in EngineInputs(STOCK_ASSET) : run_stock_engine(in)

CryptoEngine == \E in \in EngineInputs(CRYPTO_ASSET) : run_crypto_engine(in)

Next == Tick \/ Feeder \/ Brain \/ StockEngine \/ CryptoEngine

Spec == Init /\ [][Next]_vars

\* ------------------------------------------------------------ properties
\* the step is a run of operation op
Ran(op) == steps' = steps + 1 /\ lastRun'.op = op

HasLine(log, tag, asset) == \E k \in 1..Len(log) : log[k] = Line(tag, asset)

Engines == {"stock", "crypto"}
EngineAsset(op) == IF op = "stock" THEN "AAPL" ELSE "BTC"

\* C1: a decision engine that found a price decides BUY when the latest
\* signal s is at or above its buy threshold (0.75 equity, 0.80 crypto), SELL
\* when s is at or below its sell threshold (0.25, 0.20), HOLD otherwise; the
\* thresholds themselves give BUY and SELL.
C1_InclusiveThresholds ==
    \A op \in Engines :
        (lastRun.op = op /\ ~lastRun.price.null) =>
            LET s    == lastRun.signal.v
                buy  == IF op = "stock" THEN 7500 ELSE 8000
                sell == IF op = "stock" THEN 2500 ELSE 2000
            IN  /\ s \in 0..10000
                /\ s >= buy => lastRun.action = "BUY"
                /\ s <= sell => lastRun.action = "SELL"
                /\ (sell < s /\ s < buy) => lastRun.action = "HOLD"

\* the stock engine ran on a signal of exactly 0.75 and decided BUY
C1_Witness ==
    /\ lastRun.op = "stock"
    /\ lastRun.signal = Some(7500)
    /\ ~lastRun.price.null
    /\ lastRun.action = "BUY"

\* C2: every row of the trade history has action BUY or SELL, and a decision
\* engine run that decides HOLD leaves the trade history and the rest of the
\* store as they were.
C2_HoldWritesNothing ==
    /\ [](\A i \in 1..Len(trade_history) : trade_history[i].action \in {"BUY", "SELL"})
    /\ [][(\E op \in Engines : Ran(op) /\ lastRun'.action = "HOLD")
             => UNCHANGED store]_vars

\* the crypto engine decided HOLD on a stored signal while the history holds
\* the stock engine's trade
C2_Witness ==
    /\ lastRun.op = "crypto"
    /\ lastRun.action = "HOLD"
    /\ Len(trade_history) = 1
    /\ trade_history[1].asset = "AAPL"
    /\ \E i \in 1..Len(signals) : signals[i].asset = "BTC"

\* C3: a signal engine run writes no signal row for an asset with fewer than
\* 50 stored price points and leaves the rest of the store as it was; the
\* skip is printed and is no error: the assets after the skipped one are
\* still handled in the same run, and a run that raises does not end on a skip.
C3_SkipShortSeries ==
    [][Ran("brain") =>
          \A i \in 1..Len(ASSETS) :
              Len(RowsOf(price_data, ASSETS[i])) < 50 =>
                  /\ RowsOf(signals', ASSETS[i]) = RowsOf(signals, ASSETS[i])
                  /\ UNCHANGED <<price_data, price_seq, trade_history>>
                  /\ HasLine(lastRun'.log, "[SKIP]", ASSETS[i]) =>
                        /\ \A j \in (i + 1)..Len(ASSETS) :
                               \E k \in 1..Len(lastRun'.log) :
                                   lastRun'.log[k].asset = ASSETS[j]
                        /\ lastRun'.raised =>
                               lastRun'.log[Len(lastRun'.log)].tag # "[SKIP]"]_vars

\* the run skipped AAPL (49 points) and went on to store a signal for BTC
C3_Witness ==
    /\ lastRun.op = "brain"
    /\ Len(RowsOf(price_data, "AAPL")) = 49
    /\ HasLine(lastRun.log, "[SKIP]", "AAPL")
    /\ HasLine(lastRun.log, "[SIGNAL]", "BTC")
    /\ Len(signals) = 1
    /\ signals[1].asset = "BTC"

\* C4: every stored signal row has a signal_value in [0, 1], also when the
\* averages are far apart and when the latest price is 0.
C4_SignalInUnitInterval ==
    \A i \in 1..Len(signals) :
        signals[i].signal_value >= 0 /\ signals[i].signal_value <= 10000

\* a signal was stored for AAPL while its latest price is 0, and one for BTC
\* or AAPL at the end of the interval
C4_Witness ==
    /\ fetch_latest_data(price_data, "AAPL", 1) # <<>>
    /\ fetch_latest_data(price_data, "AAPL", 1)[1].price = 0
    /\ \E i \in 1..Len(signals) :
          signals[i].asset = "AAPL" /\ signals[i].signal_value = 0

\* the insert of the run of op for ASSETS[i] met a storage error
FailedInsert(op, tag, i) == Ran(op) /\ HasLine(lastRun'.log, tag, ASSETS[i])

C6_NoSignalHolds ==
    [][\A op \in Engines :
          ( /\ Ran(op)
            /\ \E p \in 1..Len(price_data) : price_data[p].asset = EngineAsset(op)
            /\ \/ \A i \in 1..Len(signals) : signals[i].asset # EngineAsset(op)
               \/ HasLine(lastRun'.log, "[ERROR] Could not fetch signal", EngineAsset(op)) )
          => /\ lastRun'.signal = Some(5000)
             /\ lastRun'.action = "HOLD"
             /\ ~lastRun'.raised
             /\ UNCHANGED store]_vars

\* the stock engine's lookup failed while a signal of 0.75 is stored for
\* AAPL: the run decided HOLD and the history is empty
C6_Witness ==
    /\ lastRun.op = "stock"
    /\ HasLine(lastRun.log, "[ERROR] Could not fetch signal", "AAPL")
    /\ \E i \in 1..Len(signals) :
          signals[i].asset = "AAPL" /\ signals[i].signal_value = 7500
    /\ lastRun.signal = Some(5000)
    /\ lastRun.action = "HOLD"
    /\ trade_history = <<>>

C8_OneRowPerKey ==
    /\ [](Cardinality({<<price_data[i].asset, price_data[i].timestamp>> :
                            i \in 1..Len(price_data)}) = Len(price_data))
    /\ [][Ran("feeder") =>
             \A a \in AssetSet :
                 ~HasLine(lastRun'.log, "Error inserting price data", a) =>
                     LET IsKey(r) == r.asset = a /\ r.timestamp = clock
                     IN  /\ Len(RowsOf(price_data', a)) =
                                Len(RowsOf(price_data, a))
                                    + (IF SelectSeq(price_data, IsKey) = <<>> THEN 1 ELSE 0)
                         /\ Len(SelectSeq(price_data', IsKey)) = 1
                         /\ SelectSeq(price_data', IsKey)[1].price = Round4(MOCK_PRICES'[a])
                         /\ fetch_latest_data(price_data', a, 1)[1].price
                                = Round4(MOCK_PRICES'[a])]_vars

\* the feeder wrote both assets twice at the same second: the second rows
\* took the place of the first, with the second prices
C8_Witness ==
    /\ lastRun.op = "feeder"
    /\ price_seq = Len(price_data) + 2
    /\ \A a \in AssetSet :
          /\ fetch_latest_data(price_data, a, 1)[1].timestamp = clock
          /\ fetch_latest_data(price_data, a, 1)[1].price = Round4(MOCK_PRICES[a])
          /\ Round4(MOCK_PRICES[a]) # Round4(MockInit(a))

\* C9: a decision engine run that decides BUY or SELL and whose insert
\* succeeds appends exactly one trade row, with the engine's asset, its
\* quantity (10 equity, 0.01 crypto) and the price of the asset's newest price
\* point; a second such run appends a second row, equal rows included.
C9_OneRowPerTrade ==
    [][\A op \in Engines :
          ( /\ Ran(op)
            /\ lastRun'.action \in {"BUY", "SELL"}
            /\ ~HasLine(lastRun'.log, "Error inserting trade action", EngineAsset(op)) )
          => \E p \in 1..Len(price_data) :
                /\ price_data[p].asset = EngineAsset(op)
                /\ \A q \in 1..Len(price_data) :
                       price_data[q].asset = EngineAsset(op)
                           => price_data[q].timestamp <= price_data[p].timestamp
                /\ trade_history' =
                       Append(trade_history,
                              [asset |-> EngineAsset(op), timestamp |-> clock,
                               action |-> lastRun'.action,
                               quantity |-> IF op = "stock" THEN 1000 ELSE 1,
                               price |-> price_data[p].price])
                /\ UNCHANGED <<price_data, price_seq, signals>>]_vars

\* two runs of the stock engine on the same signal and price left two equal
\* rows
C9_Witness ==
    /\ lastRun.op = "stock"
    /\ Len(trade_history) = 2
    /\ trade_history[1] = trade_history[2]
    /\ trade_history[1].asset = "AAPL"
    /\ trade_history[1].quantity = 1000

\* the row a signal engine step stored for asset a, if it stored one
NewSignalRows(a) ==
    IF Len(RowsOf(signals', a)) > Len(RowsOf(signals, a))
    THEN {RowsOf(signals', a)[Len(RowsOf(signals', a))]}
    ELSE {}

C11_TradeBackedBySignal ==
    /\ [](\A t \in 1..Len(trade_history) :
             LET row  == trade_history[t]
                 buy  == IF row.asset = "AAPL" THEN 7500 ELSE 8000
                 sell == IF row.asset = "AAPL" THEN 2500 ELSE 2000
             IN  \E i \in 1..Len(signals) :
                    /\ signals[i].asset = row.asset
                    /\ row.action = "BUY" => signals[i].signal_value >= buy
                    /\ row.action = "SELL" => signals[i].signal_value <= sell)
    /\ [][ /\ Len(signals') >= Len(signals)
           /\ SubSeq(signals', 1, Len(signals)) = signals
           /\ trade_history' # trade_history =>
                 \E op \in Engines :
                    /\ Ran(op)
                    /\ trade_history'[Len(trade_history')].asset = EngineAsset(op)
                    /\ SubSeq(trade_history', 1, Len(trade_history)) = trade_history ]_vars

\* the crypto engine appended a SELL row while the store holds signal rows
\* for both assets, BTC's at the sell threshold
C11_Witness ==
    /\ lastRun.op = "crypto"
    /\ lastRun.action = "SELL"
    /\ trade_history # <<>>
    /\ trade_history[Len(trade_history)].asset = "BTC"
    /\ trade_history[Len(trade_history)].action = "SELL"
    /\ \E i, j \in 1..Len(signals) :
          /\ signals[i].asset = "BTC" /\ signals[i].signal_value = 2000
          /\ signals[j].asset = "AAPL"

\* C12: every stored signal row has both sma_20 and sma_50 present: a row is
\* written only when at least 50 price points were fetched, and then both
\* rolling means are defined at the newest point, so no row comes from the
\* neutral fallback (0.5 with an absent average).
C12_BothAveragesPresent ==
    \A i \in 1..Len(signals) :
        ~signals[i].sma_20.null /\ ~signals[i].sma_50.null

\* a row was stored from exactly 50 fetched points, the fewest that pass,
\* and a row with the neutral value 0.5 carries both averages
C12_Witness ==
    /\ lastRun.op = "brain"
    /\ Len(RowsOf(price_data, "AAPL")) = 50
    /\ \E i \in 1..Len(signals) :
          /\ signals[i].asset = "AAPL"
          /\ ~signals[i].sma_20.null /\ ~signals[i].sma_50.null
    /\ \E j \in 1..Len(signals) :
          /\ signals[j].signal_value = 5000
          /\ ~signals[j].sma_20.null /\ ~signals[j].sma_50.null

====
